---- MODULE Spec2Model ----
(***************************************************************************)
(* FP-Growth frequent-itemset mining (src/data-mining/FP-Growth.py).       *)
(*                                                                         *)
(* Items are identifiers with a total order; they are modelled as the      *)
(* integers 1..NumItems, the integer order standing for the identifier     *)
(* (string) order used to break ties.  One identifier of that space is the *)
(* string "Root", which the code also uses as the item_name of the root    *)
(* node of every tree: RootName.                                           *)
(*                                                                         *)
(* A tree is an arena: a sequence of FPNode records in creation order.     *)
(* Node 1 is the root; parent = None (no parent) is 0.  The children dict  *)
(* of a node is the sequence of the nodes whose parent it is, in creation  *)
(* order (Python dicts keep insertion order).  The value None returned     *)
(* instead of a tree is the empty arena << >>.                             *)
(***************************************************************************)
EXTENDS Integers, Sequences, FiniteSets, TLC

\* ---- bounds of the model ----
NumItems == 4
MaxLen == 3
MaxTx == 3
MaxOcc == 6
MaxSupport == 2
MaxInserts == 2
MaxWeight == 2
MaxPrefix == 1
ParLen == 3
ParTx == 2
ParOcc == 4

\* ---- the sentinel item_name of a root node: FPNode("Root", 0, None) ----
RootName == 2

None == 0
NoTree == << >>
Items == 1..NumItems

VARIABLES
    transactions,       \* the dataset: a list of transactions, each a list of items
    min_support,        \* the threshold passed to build_fp_tree and mine_fp_tree
    pc,                 \* how far the driver is
    root,               \* the tree (NoTree before it is built)
    main_frequent_items, \* the dict build_fp_tree returned with the tree (main's frequent_items)
    main_item_order,    \* the list build_fp_tree returned with the tree (main's item_order)
    frequent_patterns,  \* what the first call of the miner returned
    patterns2,          \* what the second call of the miner returned
    default_prefix,     \* the list object that is the default of the parameter prefix
    inserted,           \* the insert_transaction calls made on root by a caller of its own
    given_prefix,       \* the prefix such a caller passes to the two miners
    single_path_patterns, \* what mine_single_path returned
    base_item,          \* the item such a caller asks the conditional pattern base of
    pattern_base,       \* how that call ended: raised or not, and the list returned
    branches,           \* the loop bodies of the miner (lines 452-471) under way, one
                        \* per call of the miner and item of its tree
    prefixes            \* the list object prefix of each call of the miner

buildVars == <<root, main_frequent_items, main_item_order>>
callerVars == <<inserted, given_prefix, single_path_patterns, base_item, pattern_base,
                branches, prefixes>>

vars == <<transactions, min_support, pc, root, main_frequent_items, main_item_order,
          frequent_patterns, patterns2, default_prefix, inserted, given_prefix,
          single_path_patterns, base_item, pattern_base,
                   branches, prefixes>>

\* ---------------------------------------------------------------------------
\* generic helpers standing for Python built-ins
\* ---------------------------------------------------------------------------

\* sorted(seq, key=...) / list.sort(key=...): a stable sort by an integer key
StableSort(s, key) ==
    [p \in 1..Len(s) |->
        s[CHOOSE j \in 1..Len(s) :
            Cardinality({i \in 1..Len(s) :
                \/ key[s[i]] < key[s[j]]
                \/ key[s[i]] = key[s[j]] /\ i < j}) = p - 1]]

\* the elements of a sequence
Range(s) == {s[i] : i \in 1..Len(s)}

\* tuple(sorted(pattern)): the key under which a pattern is stored
PatternKey(pattern) == StableSort(pattern, [i \in Range(pattern) |-> i])

\* ---------------------------------------------------------------------------
\* 1. data structures
\* ---------------------------------------------------------------------------

FPNode(item_name, count, parent) ==
    [item_name |-> item_name, count |-> count, parent |-> parent,
     node_link |-> None]

\* a variant that overwrites the count instead of adding to it
increment_Assign(node, count) == [node EXCEPT !.count = count]

\* FPNode.increment: self.count += count
increment(node, count) == [node EXCEPT !.count = @ + count]

\* node.children.values(): the children of node n, in insertion order
Children(tree, n) ==
    SelectSeq([i \in 1..Len(tree) |-> i], LAMBDA c : tree[c].parent = n)

\* ---------------------------------------------------------------------------
\* 2-5. counting, filtering, ordering, reordering
\* ---------------------------------------------------------------------------

\* item_counts[item] += 1 for every occurrence of an item in a transaction
scan_and_count_items(txs) ==
    LET occ(item) == {<<t, i>> \in (1..Len(txs)) \X (1..MaxLen + 1) :
                          i <= Len(txs[t]) /\ txs[t][i] = item}
        seen == UNION {Range(txs[t]) : t \in 1..Len(txs)}
    IN  [item \in seen |-> Cardinality(occ(item))]

filter_by_min_support(item_counts, ms) ==
    [item \in {i \in DOMAIN item_counts : item_counts[i] >= ms} |->
        item_counts[item]]

\* sorted(frequent_items.items(), key=lambda x: (-x[1], x[0]))
RECURSIVE SortByCountThenName(_, _)
SortByCountThenName(frequent_items, rest) ==
    IF rest = {} THEN << >>
    ELSE LET first == CHOOSE a \in rest : \A b \in rest \ {a} :
                          \/ frequent_items[a] > frequent_items[b]
                          \/ frequent_items[a] = frequent_items[b] /\ a < b
         IN  <<first>> \o SortByCountThenName(frequent_items, rest \ {first})

get_sorted_frequent_items(frequent_items) ==
    SortByCountThenName(frequent_items, DOMAIN frequent_items)

reorder_transaction(transaction, item_order) ==
    LET order_map == [item \in Range(item_order) |->
                         CHOOSE idx \in 1..Len(item_order) : item_order[idx] = item]
        filtered == SelectSeq(transaction, LAMBDA item : item \in DOMAIN order_map)
    IN  StableSort(filtered, order_map)

\* ---------------------------------------------------------------------------
\* 6. insertion
\* ---------------------------------------------------------------------------

\* "item in current_node.children": the children of current_node that carry item
\* (at most one: children is a dict keyed by item)
ChildrenWithItem(tree, current_node, item) ==
    {c \in 1..Len(tree) : tree[c].parent = current_node /\ tree[c].item_name = item}

RECURSIVE InsertFrom(_, _, _, _, _)
InsertFrom(tree, current_node, transaction, i, count) ==
    IF i > Len(transaction) THEN tree
    ELSE LET item == transaction[i]
             hit == ChildrenWithItem(tree, current_node, item)
         IN  IF hit # {}
             THEN LET child == CHOOSE c \in hit : TRUE
                  IN  InsertFrom([tree EXCEPT ![child] = increment(@, count)],
                                 child, transaction, i + 1, count)
             ELSE InsertFrom(Append(tree, FPNode(item, count, current_node)),
                             Len(tree) + 1, transaction, i + 1, count)

\* a variant that drops the weight and counts every sequence once
insert_transaction_UnitWeight(tree, transaction, count) ==
    InsertFrom(tree, 1, transaction, 1, 1)

insert_transaction(tree, transaction, count) ==
    InsertFrom(tree, 1, transaction, 1, count)

\* ---------------------------------------------------------------------------
\* 7. building the tree
\* ---------------------------------------------------------------------------

NewRoot == <<FPNode(RootName, 0, None)>>

\* the loop of build_fp_tree over the transactions, each with weight 1
RECURSIVE InsertAll(_, _, _, _)
InsertAll(tree, txs, item_order, t) ==
    IF t > Len(txs) THEN tree
    ELSE LET ordered == reorder_transaction(txs[t], item_order)
         IN  InsertAll(IF ordered # << >>
                           THEN insert_transaction(tree, ordered, 1)
                           ELSE tree,
                       txs, item_order, t + 1)

build_fp_tree(txs, ms) ==
    LET item_counts == scan_and_count_items(txs)
        frequent_items == filter_by_min_support(item_counts, ms)
        item_order == get_sorted_frequent_items(frequent_items)
    IN  [root |-> InsertAll(NewRoot, txs, item_order, 1),
         frequent_items |-> frequent_items,
         item_order |-> item_order]

\* ---------------------------------------------------------------------------
\* 9. traversal helpers and the single-path miner
\* ---------------------------------------------------------------------------

\* the depth-first, parent-before-children walk of collect_all_nodes.traverse
\* and mine_fp_tree.collect_items: the nodes of the subtree of node, in visit order
RECURSIVE traverse(_, _), TraverseEach(_, _, _)
traverse(tree, node) ==
    <<node>> \o TraverseEach(tree, Children(tree, node), 1)
TraverseEach(tree, kids, k) ==
    IF k > Len(kids) THEN << >>
    ELSE traverse(tree, kids[k]) \o TraverseEach(tree, kids, k + 1)

collect_all_nodes(tree, item_name) ==
    SelectSeq(traverse(tree, 1), LAMBDA n : tree[n].item_name = item_name)

\* path_items of mine_single_path: follow the first child until a leaf
RECURSIVE PathItems(_, _)
PathItems(tree, current) ==
    LET kids == Children(tree, current)
    IN  IF kids = << >> THEN << >>
        ELSE <<[item |-> tree[kids[1]].item_name, count |-> tree[kids[1]].count]>>
                 \o PathItems(tree, kids[1])

RECURSIVE Pow2(_)
Pow2(n) == IF n = 0 THEN 1 ELSE 2 * Pow2(n - 1)

\* i & (1 << j), j counted from 0
BitSet(i, j) == (i \div Pow2(j)) % 2 = 1

\* float('inf'), the start value of min_count: above every count of the model
Infinity == 1000000

RECURSIVE MinCount(_, _, _)
MinCount(path_items, i, j) ==
    IF j > Len(path_items) THEN Infinity
    ELSE LET rest == MinCount(path_items, i, j + 1)
         IN  IF BitSet(i, j - 1) /\ path_items[j].count < rest
             THEN path_items[j].count ELSE rest

\* the list of (pattern, support) pairs, in the order of the subset counter i
mine_single_path(tree, prefix, ms) ==
    LET path_items == PathItems(tree, 1)
        n == Len(path_items)
        chosen(i) == SelectSeq([j \in 1..n |-> j], LAMBDA j : BitSet(i, j - 1))
        pattern(i) == prefix \o [k \in 1..Len(chosen(i)) |-> path_items[chosen(i)[k]].item]
        all == [i \in 1..(Pow2(n) - 1) |->
                   [pattern |-> PatternKey(pattern(i)),
                    support |-> MinCount(path_items, i, 1)]]
    IN  SelectSeq(all, LAMBDA e : e.support >= ms)

\* ---------------------------------------------------------------------------
\* 10. conditional pattern bases, conditional trees, the miner
\* ---------------------------------------------------------------------------

\* the walk "while current.item_name != 'Root'" from a node's parent upwards,
\* reversed: the ancestors' items in root-to-parent order
RECURSIVE AncestorPath(_, _)
AncestorPath(tree, current) ==
    IF tree[current].item_name = RootName THEN << >>
    ELSE AncestorPath(tree, tree[current].parent) \o <<tree[current].item_name>>

get_conditional_pattern_base(tree, item_name) ==
    LET nodes == collect_all_nodes(tree, item_name)
        all == [k \in 1..Len(nodes) |->
                   [path |-> AncestorPath(tree, tree[nodes[k]].parent),
                    count |-> tree[nodes[k]].count]]
    IN  SelectSeq(all, LAMBDA e : e.path # << >>)

\* How a call get_conditional_pattern_base(tree, item_name) ends.  A collected
\* node without a parent makes "current = node.parent; current.item_name" raise
\* AttributeError; collect_all_nodes compares item_name for the root too.
NotCalled == [raised |-> FALSE, value |-> << >>]

conditional_pattern_base_call(tree, item_name) ==
    IF \E n \in Range(collect_all_nodes(tree, item_name)) : tree[n].parent = None
    THEN [raised |-> TRUE, value |-> << >>]
    ELSE [raised |-> FALSE, value |-> get_conditional_pattern_base(tree, item_name)]

RECURSIVE SumSeq(_, _)
SumSeq(s, k) == IF k > Len(s) THEN 0 ELSE s[k] + SumSeq(s, k + 1)

\* item_counts[item] += count for every occurrence of item in a path
WeightedCounts(conditional_patterns) ==
    LET seen == UNION {Range(conditional_patterns[k].path) :
                          k \in 1..Len(conditional_patterns)}
        occ(k, item) == Cardinality({i \in 1..Len(conditional_patterns[k].path) :
                                        conditional_patterns[k].path[i] = item})
    IN  [item \in seen |->
            SumSeq([k \in 1..Len(conditional_patterns) |->
                       occ(k, item) * conditional_patterns[k].count], 1)]

RECURSIVE InsertAllWeighted(_, _, _, _)
InsertAllWeighted(tree, conditional_patterns, item_order, k) ==
    IF k > Len(conditional_patterns) THEN tree
    ELSE LET ordered == reorder_transaction(conditional_patterns[k].path, item_order)
         IN  InsertAllWeighted(
                 IF ordered # << >>
                     THEN insert_transaction(tree, ordered, conditional_patterns[k].count)
                     ELSE tree,
                 conditional_patterns, item_order, k + 1)

build_conditional_fp_tree(conditional_patterns, ms) ==
    LET item_counts == WeightedCounts(conditional_patterns)
        frequent_items == filter_by_min_support(item_counts, ms)
        item_order == get_sorted_frequent_items(frequent_items)
    IN  IF DOMAIN frequent_items = {}
        THEN [root |-> NoTree, frequent_items |-> << >>, item_order |-> << >>]
        ELSE [root |-> InsertAllWeighted(NewRoot, conditional_patterns, item_order, 1),
              frequent_items |-> frequent_items,
              item_order |-> item_order]

\* the dict items of mine_fp_tree, filled by collect_items: the item names of the
\* nodes whose item_name is not "Root", in order of first visit, and their total counts
ItemNames(tree) ==
    LET visited == SelectSeq(traverse(tree, 1), LAMBDA n : tree[n].item_name # RootName)
    IN  [k \in 1..Len(visited) |-> tree[visited[k]].item_name]

\* a variant that lists an item once per node that carries it
FirstVisits_PerNode(tree) == ItemNames(tree)

FirstVisits(tree) ==
    LET names == ItemNames(tree)
        firsts == SelectSeq([k \in 1..Len(names) |-> k],
                            LAMBDA k : \A h \in 1..(k - 1) : names[h] # names[k])
    IN  [k \in 1..Len(firsts) |-> names[firsts[k]]]

collect_items(tree) ==
    [item \in Range(FirstVisits(tree)) |->
        SumSeq([n \in 1..Len(tree) |->
                   IF n # 1 /\ tree[n].item_name = item THEN tree[n].count ELSE 0], 1)]

\* frequent_patterns[pattern_key] = support, unless a support at least as large
\* is stored under that key
StorePattern(patterns, pattern_key, support) ==
    IF pattern_key \in DOMAIN patterns /\ ~(patterns[pattern_key] < support)
    THEN patterns
    ELSE [k \in DOMAIN patterns \cup {pattern_key} |->
             IF k = pattern_key THEN support ELSE patterns[k]]

\* new_pattern = prefix + [item]: the value of the new list ...
NewPattern(prefix, item) == Append(prefix, item)

\* a variant that extends the list prefix in place (prefix.append(item))
PrefixAfter_Appended(prefix, item) == Append(prefix, item)

\* ... and the list object prefix after that statement: "+" builds a new list
\* and leaves its operands as they were
PrefixAfter(prefix, item) == prefix

\* "if frequent_patterns is None: frequent_patterns = {}".  The accumulator of
\* the model is the dict (patterns) together with a log of what the call did
\* (one "emit" entry per pattern offered to the dict, one "cond" entry per
\* conditional pattern base extracted and conditional tree built from it, one
\* "call" entry per recursive call: the item mined, the items of the caller's
\* tree and of the conditional tree, the depth of the callee, the top-level
\* call having depth 1) and the list object prefix of the outermost call as
\* the call leaves it.
FreshAccumulator == [patterns |-> << >>, log |-> << >>, prefix |-> << >>]

RECURSIVE mine_fp_tree(_, _, _, _, _), MineEach(_, _, _, _, _, _, _, _)
mine_fp_tree(tree, ms, prefix, acc, depth) ==
    LET items == collect_items(tree)
        sorted_items == StableSort(FirstVisits(tree), items)
    IN  MineEach(tree, ms, prefix, items, sorted_items, 1, acc, depth)
MineEach(tree, ms, prefix, items, sorted_items, k, acc, depth) ==
    IF k > Len(sorted_items) THEN [acc EXCEPT !.prefix = prefix]
    ELSE LET item == sorted_items[k]
             support == items[item]
             new_pattern == NewPattern(prefix, item)
             pattern_key == PatternKey(new_pattern)
             stored == [acc EXCEPT
                           !.patterns = StorePattern(@, pattern_key, support),
                           !.log = Append(@, [kind |-> "emit", key |-> pattern_key,
                                              support |-> support, depth |-> depth])]
             conditional_patterns == get_conditional_pattern_base(tree, item)
             cond == build_conditional_fp_tree(conditional_patterns, ms)
             built == [stored EXCEPT
                           !.log = Append(@, [kind |-> "cond", item |-> item,
                                              base |-> conditional_patterns,
                                              cond_root |-> cond.root,
                                              min_support |-> ms, depth |-> depth])]
             called == [built EXCEPT
                           !.log = Append(@, [kind |-> "call", item |-> item,
                                              caller_items |-> DOMAIN items,
                                              callee_items |-> DOMAIN collect_items(cond.root),
                                              depth |-> depth + 1])]
             after == IF cond.root # NoTree
                      THEN mine_fp_tree(cond.root, ms, new_pattern, called, depth + 1)
                      ELSE built
         IN  MineEach(tree, ms, PrefixAfter(prefix, item), items, sorted_items,
                      k + 1, after, depth)

\* ---------------------------------------------------------------------------
\* the program: a driver builds the tree of a dataset and mines it (main);
\* a second call of the miner on the same tree is a further step
\* ---------------------------------------------------------------------------

SeqsUpTo(S, n) == UNION {[1..k -> S] : k \in 0..n}

\* The transactions a driver may pass.  A transaction lists its items in
\* identifier order here: scan_and_count_items counts occurrences and
\* reorder_transaction sorts by item_order, whose keys differ for different
\* items, so the listing order inside one transaction never reaches the tree.
TxUniverse ==
    {t \in SeqsUpTo(Items, MaxLen) : \A i \in 1..(Len(t) - 1) : t[i] <= t[i + 1]}

\* the number of item occurrences of a dataset
TotalLen(txs) == SumSeq([t \in 1..Len(txs) |-> Len(txs[t])], 1)

Init ==
    /\ \E n \in 0..MaxTx : transactions \in [1..n -> TxUniverse]
    /\ TotalLen(transactions) <= MaxOcc
    /\ min_support \in 0..MaxSupport
    /\ pc = "start"
    /\ root = NoTree
    /\ main_frequent_items = << >>
    /\ main_item_order = << >>
    /\ frequent_patterns = FreshAccumulator
    /\ patterns2 = FreshAccumulator
    /\ default_prefix = << >>
    /\ inserted = << >>
    /\ given_prefix = << >>
    /\ single_path_patterns = << >>
    /\ base_item = None
    /\ pattern_base = NotCalled
    /\ branches = {}
    /\ prefixes = << >>

\* root, frequent_items, item_order = build_fp_tree(transactions, min_support)
Build ==
    /\ pc = "start"
    /\ LET built == build_fp_tree(transactions, min_support)
       IN  /\ root' = built.root
           /\ main_frequent_items' = built.frequent_items
           /\ main_item_order' = built.item_order
    /\ pc' = "built"
    /\ UNCHANGED <<transactions, min_support, frequent_patterns, patterns2,
                   default_prefix, callerVars>>

\* all_patterns = mine_fp_tree(root, min_support): prefix is the default list
\* object, frequent_patterns the default None
Mine ==
    /\ pc = "built"
    /\ LET result == mine_fp_tree(root, min_support, default_prefix, FreshAccumulator, 1)
       IN  /\ frequent_patterns' = result
           /\ default_prefix' = result.prefix
    /\ pc' = "mined"
    /\ UNCHANGED <<transactions, min_support, buildVars, patterns2, callerVars>>

\* mine_fp_tree(root, min_support) once more, on the same tree
Remine ==
    /\ pc = "mined"
    /\ LET result == mine_fp_tree(root, min_support, default_prefix, FreshAccumulator, 1)
       IN  /\ patterns2' = result
           /\ default_prefix' = result.prefix
    /\ pc' = "remined"
    /\ UNCHANGED <<transactions, min_support, buildVars, frequent_patterns, callerVars>>

Next == Build \/ Mine \/ Remine

Spec == Init /\ [][Next]_vars

\* ---------------------------------------------------------------------------
\* a caller of its own: insert_transaction calls on a fresh root, then both
\* miners on the tree when it is a single path
\* ---------------------------------------------------------------------------

\* every node has at most one child
SinglePath(tree) == \A n \in 1..Len(tree) : Len(Children(tree, n)) <= 1

InitInsert ==
    /\ transactions = << >>
    /\ min_support = 1
    /\ pc = "inserting"
    /\ root = NewRoot
    /\ main_frequent_items = << >>
    /\ main_item_order = << >>
    /\ frequent_patterns = FreshAccumulator
    /\ patterns2 = FreshAccumulator
    /\ default_prefix = << >>
    /\ inserted = << >>
    /\ given_prefix = << >>
    /\ single_path_patterns = << >>
    /\ base_item = None
    /\ pattern_base = NotCalled
    /\ branches = {}
    /\ prefixes = << >>

\* insert_transaction(root, ordered_items, weight); a weight is a number of
\* transactions, as at the two call sites (1 and a node's count)
Insert(ordered_items, weight) ==
    /\ pc = "inserting"
    /\ Len(inserted) < MaxInserts
    /\ root' = insert_transaction(root, ordered_items, weight)
    /\ inserted' = Append(inserted, [items |-> ordered_items, weight |-> weight])
    /\ UNCHANGED <<transactions, min_support, pc, main_frequent_items, main_item_order,
                   frequent_patterns, patterns2, default_prefix, given_prefix,
                   single_path_patterns, base_item, pattern_base,
                   branches, prefixes>>

\* mine_single_path(root, prefix, ms) and mine_fp_tree(root, ms, prefix) on a
\* tree that is a single path
MineBoth(pre, ms) ==
    /\ pc = "inserting"
    /\ SinglePath(root)
    /\ single_path_patterns' = mine_single_path(root, pre, ms)
    /\ frequent_patterns' = mine_fp_tree(root, ms, pre, FreshAccumulator, 1)
    /\ given_prefix' = pre
    /\ min_support' = ms
    /\ pc' = "compared"
    /\ UNCHANGED <<transactions, buildVars, patterns2, default_prefix, inserted,
                   base_item, pattern_base, branches, prefixes>>

\* get_conditional_pattern_base(root, item)
ExtractBase(item) ==
    /\ pc = "inserting"
    /\ pattern_base' = conditional_pattern_base_call(root, item)
    /\ base_item' = item
    /\ pc' = "extracted"
    /\ UNCHANGED <<transactions, min_support, buildVars, frequent_patterns, patterns2,
                   default_prefix, inserted, given_prefix, single_path_patterns,
                   branches, prefixes>>

NextInsert ==
    \/ \E ordered_items \in SeqsUpTo(Items, MaxLen), weight \in 1..MaxWeight :
           Insert(ordered_items, weight)
    \/ \E pre \in SeqsUpTo(Items, MaxPrefix), ms \in 0..MaxSupport : MineBoth(pre, ms)
    \/ \E item \in Items : ExtractBase(item)

SpecInsert == InitInsert /\ [][NextInsert]_vars

\* ---------------------------------------------------------------------------
\* the loop of the miner with its bodies taken apart.  Each iteration of
\* "for item, support in sorted_items" (lines 452-471) is a branch of four
\* steps - store the pattern (454-459), extract the conditional pattern base
\* (462), build the conditional tree (465-467), start the miner on it (470-471)
\* - and the steps of all the branches under way are taken in any order.  What
\* the branches share is what the code shares: the dict frequent_patterns and,
\* among the iterations of one call, the list object prefix.
\* ---------------------------------------------------------------------------

ParUniverse ==
    {t \in SeqsUpTo(Items, ParLen) : \A i \in 1..(Len(t) - 1) : t[i] <= t[i + 1]}

InitPar ==
    /\ \E n \in 0..ParTx : transactions \in [1..n -> ParUniverse]
    /\ TotalLen(transactions) <= ParOcc
    /\ min_support \in 0..MaxSupport
    /\ pc = "start"
    /\ root = NoTree
    /\ main_frequent_items = << >>
    /\ main_item_order = << >>
    /\ frequent_patterns = FreshAccumulator
    /\ patterns2 = FreshAccumulator
    /\ default_prefix = << >>
    /\ inserted = << >>
    /\ given_prefix = << >>
    /\ single_path_patterns = << >>
    /\ base_item = None
    /\ pattern_base = NotCalled
    /\ branches = {}
    /\ prefixes = << >>

\* the iterations of a call mine_fp_tree(tree, ...): lines 436-449.  A call is
\* named by the items mined on the way to it, the outermost call by << >>.
Spawn(call, tree) ==
    LET items == collect_items(tree)
    IN  {[call |-> call, tree |-> tree, item |-> item, support |-> items[item],
          stage |-> "store", new_pattern |-> << >>, found |-> FALSE,
          conditional_patterns |-> << >>, cond_root |-> NoTree] :
            item \in DOMAIN items}

\* mine_fp_tree(root, min_support), prefix being the default list
StartMining ==
    /\ pc = "built"
    /\ branches' = Spawn(<< >>, root)
    /\ prefixes' = (<< >> :> default_prefix)
    /\ pc' = "mining"
    /\ UNCHANGED <<transactions, min_support, buildVars, frequent_patterns, patterns2,
                   default_prefix, inserted, given_prefix, single_path_patterns,
                   base_item, pattern_base>>

\* lines 454-459
StoreStep(b) ==
    /\ pc = "mining"
    /\ b.stage = "store"
    /\ LET prefix == prefixes[b.call]
           new_pattern == NewPattern(prefix, b.item)
           pattern_key == PatternKey(new_pattern)
       IN  /\ frequent_patterns' =
                  [frequent_patterns EXCEPT
                      !.patterns = StorePattern(@, pattern_key, b.support)]
           /\ prefixes' = [prefixes EXCEPT ![b.call] = PrefixAfter(prefix, b.item)]
           /\ branches' = (branches \ {b}) \cup
                  {[b EXCEPT !.stage = "extract", !.new_pattern = new_pattern,
                             !.found = pattern_key \in DOMAIN frequent_patterns.patterns]}
    /\ UNCHANGED <<transactions, min_support, pc, buildVars, patterns2, default_prefix,
                   inserted, given_prefix, single_path_patterns, base_item, pattern_base>>

\* line 462
ExtractStep(b) ==
    /\ pc = "mining"
    /\ b.stage = "extract"
    /\ branches' = (branches \ {b}) \cup
           {[b EXCEPT !.stage = "build",
                      !.conditional_patterns = get_conditional_pattern_base(b.tree, b.item)]}
    /\ UNCHANGED <<transactions, min_support, pc, buildVars, frequent_patterns, patterns2,
                   default_prefix, inserted, given_prefix, single_path_patterns,
                   base_item, pattern_base, prefixes>>

\* lines 465-467
BuildStep(b) ==
    /\ pc = "mining"
    /\ b.stage = "build"
    /\ branches' = (branches \ {b}) \cup
           {[b EXCEPT !.stage = "recurse",
                      !.cond_root =
                          build_conditional_fp_tree(b.conditional_patterns, min_support).root]}
    /\ UNCHANGED <<transactions, min_support, pc, buildVars, frequent_patterns, patterns2,
                   default_prefix, inserted, given_prefix, single_path_patterns,
                   base_item, pattern_base, prefixes>>

\* lines 470-471: the call on the conditional tree, its prefix the list new_pattern
RecurseStep(b) ==
    /\ pc = "mining"
    /\ b.stage = "recurse"
    /\ LET callee == Append(b.call, b.item)
           finished == [b EXCEPT !.stage = "done"]
       IN  IF b.cond_root # NoTree
           THEN /\ branches' = (branches \ {b}) \cup {finished} \cup Spawn(callee, b.cond_root)
                /\ prefixes' = (callee :> b.new_pattern) @@ prefixes
           ELSE /\ branches' = (branches \ {b}) \cup {finished}
                /\ prefixes' = prefixes
    /\ UNCHANGED <<transactions, min_support, pc, buildVars, frequent_patterns, patterns2,
                   default_prefix, inserted, given_prefix, single_path_patterns,
                   base_item, pattern_base>>

\* line 473 of the outermost call: every iteration of every call has ended
Join ==
    /\ pc = "mining"
    /\ \A b \in branches : b.stage = "done"
    /\ default_prefix' = prefixes[<< >>]
    /\ pc' = "joined"
    /\ UNCHANGED <<transactions, min_support, buildVars, frequent_patterns, patterns2,
                   callerVars>>

NextPar ==
    \/ Build
    \/ StartMining
    \/ \E b \in branches : StoreStep(b)
    \/ \E b \in branches : ExtractStep(b)
    \/ \E b \in branches : BuildStep(b)
    \/ \E b \in branches : RecurseStep(b)
    \/ Join

SpecPar == InitPar /\ [][NextPar]_vars

\* ===========================================================================
\* what the description of the miner says, against the program
\* ===========================================================================

\* ---- reference notions, independent of the tree ----

\* the key (sorted tuple) of a set of items
RECURSIVE SetKey(_)
SetKey(S) ==
    IF S = {} THEN << >>
    ELSE LET least == CHOOSE a \in S : \A b \in S : a <= b
         IN  <<least>> \o SetKey(S \ {least})

\* the number of transactions that contain every item of S
SupportOf(txs, S) == Cardinality({t \in 1..Len(txs) : S \subseteq Range(txs[t])})

\* the brute-force scan: every non-empty itemset with its support, filtered by ms
BruteForce(txs, ms) ==
    [key \in {SetKey(S) : S \in {T \in (SUBSET Items) \ {{}} : SupportOf(txs, T) >= ms}}
        |-> SupportOf(txs, Range(key))]

NoRepeat(s) == \A i, j \in 1..Len(s) : i # j => s[i] # s[j]

Deduplicated(txs) == \A t \in 1..Len(txs) : NoRepeat(txs[t])

\* the non-empty sub-tuples of a key: its non-empty subsets when it repeats no item
SubKeys(key) ==
    {[k \in 1..Len(pick) |-> key[pick[k]]] :
        pick \in {SelectSeq([i \in 1..Len(key) |-> i], LAMBDA i : i \in M) :
                     M \in (SUBSET (1..Len(key))) \ {{}}}}

Mined == pc \in {"mined", "remined"}
Built == pc \in {"built", "mined", "remined"}

\* C1: for deduplicated transactions and a positive min_support, the mined map
\* is the brute-force map: the itemsets contained in at least min_support
\* transactions, each with the number of transactions containing it.
C1_EqualsBruteForce ==
    (Mined /\ Deduplicated(transactions) /\ min_support > 0)
        => frequent_patterns.patterns = BruteForce(transactions, min_support)

\* C2: every non-empty subset of a mined pattern is mined too, with a support
\* at least that of the pattern.
C2_AntiMonotone ==
    Mined =>
        \A P \in DOMAIN frequent_patterns.patterns : \A S \in SubKeys(P) :
            /\ S \in DOMAIN frequent_patterns.patterns
            /\ frequent_patterns.patterns[S] >= frequent_patterns.patterns[P]

\* C3: a min_support of zero or less is rejected: the run ends in an error, with
\* no tree and no pattern map.
C3_NonPositiveRejected ==
    min_support <= 0 =>
        /\ pc \in {"start", "error"}
        /\ root = NoTree
        /\ frequent_patterns.patterns = << >>

\* C4: when no item is in min_support transactions (so for an empty dataset and
\* for a min_support above the number of transactions) the tree built is the
\* root alone and the mined map is empty.
C4_NothingFrequentNothingMined ==
    (\/ \A item \in Items : SupportOf(transactions, {item}) < min_support
     \/ min_support > Len(transactions))
        => /\ Built => root = NewRoot
           /\ Mined => frequent_patterns.patterns = << >>

\* C5: in every recursive call of the miner the conditional tree's items are a
\* strict subset of the caller's tree's items and do not include the mined item,
\* and no call is deeper than the number of distinct frequent items.
C5_ItemsShrink ==
    Mined =>
        \A k \in 1..Len(frequent_patterns.log) :
            LET e == frequent_patterns.log[k]
            IN  e.kind = "call" =>
                    /\ e.callee_items \subseteq e.caller_items
                    /\ e.callee_items # e.caller_items
                    /\ e.item \notin e.callee_items
                    /\ e.depth <= Cardinality(DOMAIN main_frequent_items)

\* C6: the scan maps each item to the number of transactions containing it, and
\* the sequence inserted for a transaction has each item at most once.
C6_CountedOncePerTransaction ==
    Built =>
        /\ \A item \in DOMAIN scan_and_count_items(transactions) :
               scan_and_count_items(transactions)[item] = SupportOf(transactions, {item})
        /\ \A t \in 1..Len(transactions) :
               NoRepeat(reorder_transaction(transactions[t], main_item_order))

\* C7: a second call of the miner on the same tree returns the map the first
\* returned; the calls leave the tree as it was built, and leave nothing behind
\* that the next call reads.
C7_RemineIdentical ==
    pc = "remined" =>
        /\ patterns2 = frequent_patterns
        /\ root = build_fp_tree(transactions, min_support).root
        /\ default_prefix = << >>

C7_Witness ==
    /\ pc = "remined"
    /\ \E P \in DOMAIN patterns2.patterns : Len(P) >= 2
    /\ \E k \in 1..Len(patterns2.log) : patterns2.log[k].kind = "call"

\* C8: on a tree that is a single path, mine_single_path returns the entries of
\* the map mine_fp_tree returns, for every prefix and every min_support.
C8_SinglePathEqualsGeneral ==
    pc = "compared" =>
        {<<single_path_patterns[k].pattern, single_path_patterns[k].support>> :
            k \in 1..Len(single_path_patterns)}
        = {<<key, frequent_patterns.patterns[key]>> :
            key \in DOMAIN frequent_patterns.patterns}

\* C9: the counts of the root's children add up to the number of transactions
\* that keep an item when pruned to the frequent items.
C9_TreeMass ==
    Built =>
        SumSeq([k \in 1..Len(Children(root, 1)) |-> root[Children(root, 1)[k]].count], 1)
        = Cardinality({t \in 1..Len(transactions) :
                          Range(transactions[t]) \cap DOMAIN main_frequent_items # {}})

C9_Witness ==
    /\ pc = "built"
    /\ \E k \in 1..Len(Children(root, 1)) : root[Children(root, 1)[k]].count >= 2
    /\ \E t \in 1..Len(transactions) :
          /\ transactions[t] # << >>
          /\ Range(transactions[t]) \cap DOMAIN main_frequent_items = {}

\* the items on the way from the root (excluded) down to node n (included)
RECURSIVE NodePath(_, _)
NodePath(tree, n) ==
    IF n = 1 THEN << >> ELSE NodePath(tree, tree[n].parent) \o <<tree[n].item_name>>

IsPrefix(p, s) == Len(p) <= Len(s) /\ \A i \in 1..Len(p) : p[i] = s[i]

\* the weights of the inserted sequences that start with the path of node n
WeightThrough(tree, calls, n) ==
    SumSeq([k \in 1..Len(calls) |->
               IF IsPrefix(NodePath(tree, n), calls[k].items) THEN calls[k].weight ELSE 0], 1)

ChildrenCount(tree, n) ==
    SumSeq([k \in 1..Len(Children(tree, n)) |-> tree[Children(tree, n)[k]].count], 1)

\* C10 as stated: every non-root node counts the weights of the inserted
\* sequences that start with its path, EVERY node's count is at least the sum of
\* its children's counts, and the root's count is 0.
C10_CountsEveryNode ==
    pc = "inserting" =>
        /\ \A n \in 2..Len(root) : root[n].count = WeightThrough(root, inserted, n)
        /\ \A n \in 1..Len(root) : root[n].count >= ChildrenCount(root, n)
        /\ root[1].count = 0

\* C10, amended: the same, the comparison with the children's counts holding
\* for every node but the root.
C10_CountsNonRoot ==
    pc = "inserting" =>
        /\ \A n \in 2..Len(root) : root[n].count = WeightThrough(root, inserted, n)
        /\ \A n \in 2..Len(root) : root[n].count >= ChildrenCount(root, n)
        /\ root[1].count = 0

C10_Witness ==
    /\ pc = "inserting"
    /\ Len(inserted) = 2
    /\ \E n \in 2..Len(root) :
          /\ root[n].count = 3
          /\ ChildrenCount(root, n) = 1
          /\ root[n].parent # 1

\* the patterns a call of the miner offered to the dict, in order
Emits(log) == SelectSeq(log, LAMBDA e : e.kind = "emit")

\* C12: in a build-then-mine run over deduplicated transactions, from a fresh
\* accumulator, no pattern key is emitted twice, so the keep-the-maximum merge
\* never finds the key already stored.
C12_SingleDerivation ==
    (Mined /\ Deduplicated(transactions)) =>
        LET em == Emits(frequent_patterns.log)
        IN  /\ \A i, j \in 1..Len(em) : i # j => em[i].key # em[j].key
            /\ Len(em) = Cardinality(DOMAIN frequent_patterns.patterns)

C12_Witness ==
    /\ Mined
    /\ Deduplicated(transactions)
    /\ Len(Children(root, 1)) >= 2
    /\ \E k \in 1..Len(frequent_patterns.log) :
          /\ frequent_patterns.log[k].kind = "emit"
          /\ frequent_patterns.log[k].depth = 3

\* the nodes that carry item and are not children of the root
DeepNodes(tree, item) ==
    {n \in 2..Len(tree) : tree[n].item_name = item /\ tree[n].parent # 1}

\* the pair the description gives such a node: its ancestors' items from the
\* root's child down to its parent, and its own count
PairOf(tree, n) == [path |-> NodePath(tree, tree[n].parent), count |-> tree[n].count]

\* C13: get_conditional_pattern_base(root, item) returns one (path, count) pair
\* for each node of the item whose parent is not the root, the path being the
\* node's ancestor items in root-to-parent order and the count the node's count;
\* nothing for a node directly under the root; no path is empty or runs to the
\* node itself.
C13_ConditionalPatternBase ==
    pc = "extracted" =>
        /\ ~pattern_base.raised
        /\ \A e \in Range(pattern_base.value) \cup
                    {PairOf(root, n) : n \in DeepNodes(root, base_item)} :
               Cardinality({k \in 1..Len(pattern_base.value) : pattern_base.value[k] = e})
               = Cardinality({n \in DeepNodes(root, base_item) : PairOf(root, n) = e})
        /\ \A k \in 1..Len(pattern_base.value) : pattern_base.value[k].path # << >>

\* the nodes carrying item, in the order in which they were created
CreatedFor(tree, item) ==
    SelectSeq([n \in 1..Len(tree) |-> n],
              LAMBDA n : n > 1 /\ tree[n].item_name = item)

\* C14: after any sequence of insertions the node_link of every node of an item
\* leads to the next node created for that item (None at the last one), and the
\* entries of the item's conditional pattern base come in node-creation order.
C14_NodeLinkChain ==
    /\ pc \in {"inserting", "extracted"} =>
          \A item \in Items :
              LET chain == CreatedFor(root, item)
              IN  \A k \in 1..Len(chain) :
                      root[chain[k]].node_link =
                          IF k < Len(chain) THEN chain[k + 1] ELSE None
    /\ (pc = "extracted" /\ ~pattern_base.raised) =>
          LET deep == SelectSeq(CreatedFor(root, base_item),
                                LAMBDA n : AncestorPath(root, root[n].parent) # << >>)
          IN  pattern_base.value =
                  [k \in 1..Len(deep) |->
                      [path  |-> AncestorPath(root, root[deep[k]].parent),
                       count |-> root[deep[k]].count]]

\* the pattern key of a set of nodes of a tree, and the least count among them
NodesKey(tree, S) ==
    LET picked == SelectSeq([n \in 1..Len(tree) |-> n], LAMBDA n : n \in S)
    IN  PatternKey([k \in 1..Len(picked) |-> tree[picked[k]].item_name])

LeastCount(tree, S) ==
    CHOOSE c \in {tree[n].count : n \in S} : \A n \in S : c <= tree[n].count

\* C15: when the tree handed to the miner is a single path, the call does nothing
\* but store patterns - no conditional pattern base is extracted, no conditional
\* tree built, no recursive call made - and the stored patterns are the
\* non-empty subsets of the chain nodes, each with the least count in the subset.
C15_SinglePathShortcut ==
    (Mined /\ SinglePath(root)) =>
        /\ \A k \in 1..Len(frequent_patterns.log) :
               frequent_patterns.log[k].kind = "emit"
        /\ \A S \in (SUBSET (2..Len(root))) \ {{}} :
               /\ NodesKey(root, S) \in DOMAIN frequent_patterns.patterns
               /\ frequent_patterns.patterns[NodesKey(root, S)] = LeastCount(root, S)
        /\ Cardinality(DOMAIN frequent_patterns.patterns) <= Pow2(Len(root) - 1) - 1

\* a "cond" entry of the log: the item's weighted counts in the pattern base
WeightedCount(base, item) ==
    SumSeq([k \in 1..Len(base) |->
               IF item \in Range(base[k].path) THEN base[k].count ELSE 0], 1)

\* the total count of an item over the nodes of a tree
TotalCount(tree, item) ==
    SumSeq([n \in 1..Len(tree) |->
               IF n # 1 /\ tree[n].item_name = item THEN tree[n].count ELSE 0], 1)

\* C16: build_conditional_fp_tree returns no tree exactly when no item's weighted
\* count (the sum of the counts of the pairs whose path contains it) reaches
\* min_support; a tree it returns has a non-root node, and every item in it has a
\* total count equal to its weighted count and not below min_support; the miner
\* makes a recursive call only after a tree was returned.
C16_EmptySignal ==
    Mined =>
        LET log == frequent_patterns.log
        IN  \A k \in 1..Len(log) :
                /\ log[k].kind = "cond" =>
                      /\ log[k].cond_root = NoTree
                            <=> \A h \in 1..Len(log[k].base) :
                                   \A item \in Range(log[k].base[h].path) :
                                      WeightedCount(log[k].base, item) < log[k].min_support
                      /\ log[k].cond_root # NoTree =>
                            /\ Len(log[k].cond_root) >= 2
                            /\ \A n \in 2..Len(log[k].cond_root) :
                                  LET item == log[k].cond_root[n].item_name
                                  IN  /\ TotalCount(log[k].cond_root, item)
                                            = WeightedCount(log[k].base, item)
                                      /\ TotalCount(log[k].cond_root, item)
                                            >= log[k].min_support
                /\ log[k].kind = "call" =>
                      /\ k > 1
                      /\ log[k - 1].kind = "cond"
                      /\ log[k - 1].cond_root # NoTree

\* the dataset uses the identifier "Root" as an item
UsesRootName(txs) == \E t \in 1..Len(txs) : RootName \in Range(txs[t])

\* C17: an item whose identifier is "Root" is an item like any other.  In a
\* build-then-mine run over a deduplicated dataset that uses it, with a positive
\* min_support, the miner counts the nodes that carry it, the conditional pattern
\* bases taken from the tree keep it in their ancestor paths, and the mined map
\* is the brute-force map.
C17_RootIsAnItem ==
    (Mined /\ Deduplicated(transactions) /\ min_support > 0
           /\ UsesRootName(transactions)) =>
        /\ \A n \in 2..Len(root) : root[n].item_name \in DOMAIN collect_items(root)
        /\ \A n \in 2..Len(root) :
               NodePath(root, root[n].parent) # << >> =>
                   \E k \in 1..Len(frequent_patterns.log) :
                       /\ frequent_patterns.log[k].kind = "cond"
                       /\ frequent_patterns.log[k].depth = 1
                       /\ frequent_patterns.log[k].item = root[n].item_name
                       /\ \E h \in 1..Len(frequent_patterns.log[k].base) :
                             frequent_patterns.log[k].base[h].path
                                 = NodePath(root, root[n].parent)
        /\ frequent_patterns.patterns = BruteForce(transactions, min_support)

\* what the sequential least-frequent-first run stores for the tree
Sequential == mine_fp_tree(root, min_support, << >>, FreshAccumulator, 1).patterns

\* C11: with the iterations of the miner's loops taken in any order and their
\* steps interleaved in any way, every pattern in the dict has the support the
\* sequential run gives it, the dict at the end is the sequential run's dict,
\* and no iteration finds in the dict a key that another iteration stored.
C11_BranchesIndependent ==
    pc \in {"mining", "joined"} =>
        LET sequential == Sequential
        IN  /\ \A key \in DOMAIN frequent_patterns.patterns :
                   /\ key \in DOMAIN sequential
                   /\ frequent_patterns.patterns[key] = sequential[key]
            /\ pc = "joined" => frequent_patterns.patterns = sequential
            /\ \A b \in branches : ~b.found

\* an iteration of a nested call has stored its pattern while, in the outermost
\* call, an item the sequential run takes earlier has not been stored yet
C11_Witness ==
    /\ pc = "mining"
    /\ \E b, c, d \in branches :
           /\ b.call = << >> /\ c.call = << >> /\ d.call = <<c.item>>
           /\ b.support < c.support
           /\ b.stage = "store"
           /\ c.stage = "done"
           /\ d.stage = "done"
           /\ PatternKey(d.new_pattern) \in DOMAIN frequent_patterns.patterns

====
